---- MODULE Spec2Model ----
(***************************************************************************)
(* Model of locast2dvr/http/interface.py: the watch handlers of the Flask  *)
(* app built by HTTPInterface, the ffmpeg subprocess each /watch request   *)
(* spawns, the _stream generator that relays its stdout, the log_output    *)
(* thread on its stderr, and the WSGI server and client driving them; the   *)
(* lineup, scan and config endpoints; the name_only template filter.       *)
(***************************************************************************)
EXTENDS Integers, Sequences, FiniteSets, TLC

\* ---- bounds --------------------------------------------------------------
NumRequests == 2      \* concurrent requests explored
MaxBytes == 3         \* bytes one ffmpeg process writes to stdout at most
MaxVerbose == 1       \* largest config.verbose explored
NumHandlers == 2      \* concurrent requests to the lineup/scan/config endpoints
MaxLen == 5           \* longest string given to name_only
MaxStations == 1      \* most stations get_stations() returns
PipeCapacity == 1     \* lines the stderr pipe of a process buffers

Requests == 1..NumRequests

\* ---- configuration values read by the handlers ---------------------------
tuner_count == 1      \* config.tuner_count
bytes_per_read == 2   \* config.bytes_per_read

VARIABLES
  verbose,        \* config.verbose
  req,            \* position of the request handler
  mode,           \* route taken: "m3u" (watch_m3u) or "direct" (watch)
  uri,            \* result of locast_service.get_station_stream_uri
  status,         \* HTTP status of the response, 0 while none was produced
  proc,           \* ffmpeg_proc: none / running / exited / reaped
  exitStatus,     \* how ffmpeg_proc ended: none / ok / fail / signal
  written,        \* number of bytes ffmpeg wrote to its stdout
  readPos,        \* number of bytes the relay has read from stdout
  gen,            \* state of the _stream() generator object
  chunk,          \* chunk yielded by _stream and not yet written
  delivered,      \* bytes received by the client, in order
  client,         \* "connected" or "gone"
  thread,         \* position of the log_output thread
  stop_thread,    \* stop_thread of watch(), read by the thread's lambda
  stream_stop,    \* stop_thread bound inside _stream() by its assignment
  exitPath,       \* how the generator ended
  stderr,         \* lines in the stderr pipe; above PipeCapacity: ffmpeg waits
  reaps,          \* times the except block of _stream ran
  config,         \* the Configuration object shared by all handlers
  station_scan,   \* station_scan of HTTPInterface, read by lineup_status_json
  stations,       \* what locast_service.get_stations() returns
  ep,             \* per endpoint request: position, arguments, locals, response
  value,          \* the argument of a call of name_only
  result          \* what the call returned, None before it

\* The state of the watch handlers and of what they start
watchVars == <<verbose, req, mode, uri, status, proc, exitStatus, written,
               readPos, gen, chunk, delivered, client, thread, stop_thread,
               stream_stop, exitPath, stderr, reaps>>

\* The state of the lineup, scan and config endpoints
endpointVars == <<config, station_scan, stations, ep>>

\* A call of the name_only filter
filterVars == <<value, result>>

vars == <<watchVars, endpointVars, filterVars>>

reqVars == <<req, mode, uri, status>>
procVars == <<proc, exitStatus, written, stderr>>
relayVars == <<readPos, gen, chunk, exitPath, stream_stop, reaps>>
threadVars == <<thread, stop_thread>>

\* ---- pure helpers --------------------------------------------------------
Min(a, b) == IF a < b THEN a ELSE b

\* The i-th byte ffmpeg writes; bytes are distinct so that a lost, repeated
\* or reordered byte is visible in what the client receives.
ByteAt(i) == i

\* All bytes the process of request r wrote so far.
Produced(r) == [i \in 1..written[r] |-> ByteAt(i)]

IsPrefix(s, t) == /\ Len(s) <= Len(t)
                  /\ \A i \in 1..Len(s) : s[i] = t[i]

\* No watch request has arrived
WatchInit ==
  /\ verbose \in 0..MaxVerbose
  /\ req = [r \in Requests |-> "idle"]
  /\ mode = [r \in Requests |-> "none"]
  /\ uri = [r \in Requests |-> "pending"]
  /\ status = [r \in Requests |-> 0]
  /\ proc = [r \in Requests |-> "none"]
  /\ exitStatus = [r \in Requests |-> "none"]
  /\ written = [r \in Requests |-> 0]
  /\ readPos = [r \in Requests |-> 0]
  /\ gen = [r \in Requests |-> "none"]
  /\ chunk = [r \in Requests |-> <<>>]
  /\ delivered = [r \in Requests |-> <<>>]
  /\ client = [r \in Requests |-> "connected"]
  /\ thread = [r \in Requests |-> "none"]
  /\ stop_thread = [r \in Requests |-> FALSE]
  /\ stream_stop = [r \in Requests |-> FALSE]
  /\ exitPath = [r \in Requests |-> "none"]
  /\ stderr = [r \in Requests |-> 0]
  /\ reaps = [r \in Requests |-> 0]

\* ---- values of the lineup, scan and config endpoints ----------------------
Handlers == 1..NumHandlers

\* The mask output_config writes over the password
Mask == "*********"

\* Python's None, distinct from every string
None == <<"None">>

\* A request that no handler has taken yet, and its empty response
NoRequest == [pc |-> "idle", route |-> "none", arg |-> <<>>, scan |-> None,
              fetches |-> 0, status |-> 0, body |-> <<>>]

\* The configuration the watch specifications run with
DefaultConfig == [username |-> "user", password |-> "secret",
                  multiplex |-> FALSE, tuner_count |-> tuner_count,
                  ffmpeg |-> "ffmpeg"]

\* No endpoint request has arrived
EndpointIdle ==
  /\ ep = [h \in Handlers |-> NoRequest]

\* name_only has not been called
FilterIdle ==
  /\ value = <<>>
  /\ result = None

\* The app as HTTPInterface returns it, with the defaults of its arguments
Init ==
  /\ WatchInit
  /\ config = DefaultConfig
  /\ station_scan = FALSE
  /\ stations = <<>>
  /\ EndpointIdle
  /\ FilterIdle

\* ---- request handlers ----------------------------------------------------

\* The router dispatches a request to watch_m3u or watch; the handler logs
\* and calls get_station_stream_uri, where it waits for the collaborator.
\* Requests are numbered in order of arrival.
route(r, m) ==
  /\ req[r] = "idle"
  /\ \A q \in Requests : q < r => req[q] # "idle"
  /\ req' = [req EXCEPT ![r] = "resolving"]
  /\ mode' = [mode EXCEPT ![r] = m]
  /\ UNCHANGED <<verbose, endpointVars, filterVars, uri, status, procVars, relayVars, delivered, client,
                 threadVars>>

\* A handler that goes on although get_station_stream_uri raised
AfterResolveIgnoringFailure(m, ok) ==
  IF m = "m3u" THEN "redirected" ELSE "resolved"

\* Position of a handler after get_station_stream_uri returned (ok) or
\* raised (not ok): an exception leaves the view and Flask answers 500.
AfterResolve(m, ok) ==
  IF ~ok THEN "error" ELSE IF m = "m3u" THEN "redirected" ELSE "resolved"

StatusAfterResolve(m, ok) ==
  IF ~ok THEN 500 ELSE IF m = "m3u" THEN 302 ELSE 0

\* watch_m3u: redirect(get_station_stream_uri(channel_id), code=302)
watch_m3u(r, ok) ==
  /\ req[r] = "resolving"
  /\ mode[r] = "m3u"
  /\ uri' = [uri EXCEPT ![r] = IF ok THEN "ok" ELSE "fail"]
  /\ req' = [req EXCEPT ![r] = AfterResolve("m3u", ok)]
  /\ status' = [status EXCEPT ![r] = StatusAfterResolve("m3u", ok)]
  /\ UNCHANGED <<verbose, endpointVars, filterVars, mode, procVars, relayVars, delivered, client,
                 threadVars>>

\* watch, up to the return of get_station_stream_uri
watch_resolve(r, ok) ==
  /\ req[r] = "resolving"
  /\ mode[r] = "direct"
  /\ uri' = [uri EXCEPT ![r] = IF ok THEN "ok" ELSE "fail"]
  /\ req' = [req EXCEPT ![r] = AfterResolve("direct", ok)]
  /\ status' = [status EXCEPT ![r] = StatusAfterResolve("direct", ok)]
  /\ UNCHANGED <<verbose, endpointVars, filterVars, mode, procVars, relayVars, delivered, client,
                 threadVars>>

\* A watch that starts ffmpeg while the URI is still being resolved
CanSpawnUnresolved(r) == req[r] \in {"resolving", "resolved"} /\ mode[r] = "direct"

\* watch reaches subprocess.Popen only past get_station_stream_uri
CanSpawn(r) == req[r] = "resolved"

\* watch from Popen to the return of Response(_stream(), ...).  Popen raises
\* when the binary is missing (found = FALSE): the view ends with a 500 and
\* neither process nor thread exists.  Otherwise the process runs, the
\* daemon thread is started, and the response carries the generator, which
\* has not run yet.  There is no check against config.tuner_count.
watch_spawn(r, found) ==
  /\ CanSpawn(r)
  /\ IF found
       THEN /\ proc' = [proc EXCEPT ![r] = "running"]
            /\ thread' = [thread EXCEPT ![r] = "start"]
            /\ gen' = [gen EXCEPT ![r] = "unstarted"]
            /\ status' = [status EXCEPT ![r] = 200]
            /\ req' = [req EXCEPT ![r] = "streaming"]
       ELSE /\ status' = [status EXCEPT ![r] = 500]
            /\ req' = [req EXCEPT ![r] = "error"]
            /\ UNCHANGED <<proc, thread, gen>>
  /\ UNCHANGED <<verbose, endpointVars, filterVars, mode, uri, exitStatus, written, readPos, chunk,
                 exitPath, stream_stop, delivered, client, stop_thread,
                 stderr, reaps>>

\* ---- the ffmpeg process -------------------------------------------------

\* The process object of the Popen call of request r, were ffmpeg_proc one
\* name shared by all calls of watch
ffmpeg_proc_shared(r) == 1

\* ffmpeg_proc of the call of watch for request r: a local of that call, bound
\* to the object its own Popen returned, and the one its closures refer to
ffmpeg_proc(r) == r

\* ffmpeg waits in a write to the full stderr pipe
Blocked(r) == stderr[r] > PipeCapacity

\* ffmpeg writes one more byte of the transport stream to pipe:1
ffmpeg_write(r) ==
  /\ proc[r] = "running"
  /\ ~Blocked(r)
  /\ written[r] < MaxBytes
  /\ written' = [written EXCEPT ![r] = @ + 1]
  /\ UNCHANGED <<verbose, endpointVars, filterVars, reqVars, proc, exitStatus, stderr, relayVars,
                 delivered, client, threadVars>>

\* ffmpeg writes a line of its log or of its progress report to stderr; when
\* the pipe is full the write does not return until a reader takes a line
ffmpeg_log(r) ==
  /\ proc[r] = "running"
  /\ ~Blocked(r)
  /\ stderr' = [stderr EXCEPT ![r] = @ + 1]
  /\ UNCHANGED <<verbose, endpointVars, filterVars, reqVars, proc, exitStatus, written, relayVars,
                 delivered, client, threadVars>>

\* ffmpeg exits by itself: normally at the end of its input (ok), or with a
\* nonzero status (fail), possibly before it wrote anything
ffmpeg_exit(r, how) ==
  /\ proc[r] = "running"
  /\ ~Blocked(r)
  /\ proc' = [proc EXCEPT ![r] = "exited"]
  /\ exitStatus' = [exitStatus EXCEPT ![r] = how]
  /\ UNCHANGED <<verbose, endpointVars, filterVars, reqVars, written, stderr, relayVars, delivered,
                 client, threadVars>>

\* ---- the _stream generator -----------------------------------------------

\* ffmpeg_proc.stdout.read(n) returns once n bytes are buffered or at EOF
ReadReady(r) ==
  \/ written[ffmpeg_proc(r)] - readPos[ffmpeg_proc(r)] >= bytes_per_read
  \/ proc[ffmpeg_proc(r)] # "running"

\* A read that starts over at the head of the stream on every call
ReadChunkFromStart(pos, w, n) ==
  [i \in 1..Min(n, w - pos) |-> ByteAt(i)]

\* The bytes read(n) returns from position pos of a stream of w bytes: the
\* next n, or what is left before EOF (the empty chunk at EOF itself)
ReadChunk(pos, w, n) ==
  [i \in 1..Min(n, w - pos) |-> ByteAt(pos + i)]

\* An except block that signals the process and never waits for it
TerminateOnly(p) == IF p = "running" THEN "exited" ELSE p

\* ffmpeg_proc.terminate(); ffmpeg_proc.communicate(): the state of the
\* process after the except block, whatever it was before
TerminateAndReap(p) == "reaped"

\* An except block without the break: the loop goes back to the read
AfterExceptNoBreak == "reading"

\* The generator after the except block: break leaves the while loop and
\* _stream returns
AfterExcept == "done"

\* The except block of _stream: terminate and reap the process (communicate
\* reads what is left in its pipes), assign stop_thread (a name local to
\* _stream: watch's stop_thread is untouched), leave the loop, so that the
\* generator is finished.
ExceptBlock(r, path) ==
  /\ proc' = [proc EXCEPT ![ffmpeg_proc(r)] = TerminateAndReap(@)]
  /\ exitStatus' = [exitStatus EXCEPT ![ffmpeg_proc(r)] =
                      IF proc[ffmpeg_proc(r)] = "running" THEN "signal" ELSE @]
  /\ stderr' = [stderr EXCEPT ![ffmpeg_proc(r)] = 0]
  /\ reaps' = [reaps EXCEPT ![r] = @ + 1]
  /\ stream_stop' = [stream_stop EXCEPT ![r] = TRUE]
  /\ gen' = [gen EXCEPT ![r] = AfterExcept]
  /\ chunk' = [chunk EXCEPT ![r] = <<>>]
  /\ exitPath' = [exitPath EXCEPT ![r] = path]

\* The server starts iterating the response: the first next() runs _stream
\* up to the call of stdout.read
server_start(r) ==
  /\ gen[r] = "unstarted"
  /\ gen' = [gen EXCEPT ![r] = "reading"]
  /\ UNCHANGED <<verbose, endpointVars, filterVars, reqVars, procVars, readPos, chunk, exitPath,
                 stream_stop, reaps, delivered, client, threadVars>>

\* stdout.read returns and its result is yielded.  At EOF the result is the
\* empty chunk; no exception is raised, so the loop goes on.
stream_read(r) ==
  /\ gen[r] = "reading"
  /\ ReadReady(r)
  /\ chunk' = [chunk EXCEPT ![r] = ReadChunk(readPos[ffmpeg_proc(r)],
                                             written[ffmpeg_proc(r)],
                                             bytes_per_read)]
  /\ readPos' = [readPos EXCEPT ![ffmpeg_proc(r)] = @ + Len(chunk'[r])]
  /\ gen' = [gen EXCEPT ![r] = "yielded"]
  /\ UNCHANGED <<verbose, endpointVars, filterVars, reqVars, procVars, exitPath, stream_stop, reaps,
                 delivered, client, threadVars>>

\* stdout.read raises: the except block runs
stream_read_error(r) ==
  /\ gen[r] = "reading"
  /\ ExceptBlock(r, "read_error")
  /\ UNCHANGED <<verbose, endpointVars, filterVars, reqVars, written, readPos, delivered, client,
                 threadVars>>

\* ---- the WSGI server and the client --------------------------------------

\* The server writes the yielded chunk to the client and calls next(), which
\* resumes _stream at the yield and takes it to the next stdout.read
server_write(r) ==
  /\ gen[r] = "yielded"
  /\ client[r] = "connected"
  /\ delivered' = [delivered EXCEPT ![r] = @ \o chunk[r]]
  /\ chunk' = [chunk EXCEPT ![r] = <<>>]
  /\ gen' = [gen EXCEPT ![r] = "reading"]
  /\ UNCHANGED <<verbose, endpointVars, filterVars, reqVars, procVars, readPos, exitPath, stream_stop,
                 reaps, client, threadVars>>

\* The write fails because the client is gone: the server closes the
\* response, close() raises GeneratorExit at the yield, and the bare except
\* of _stream catches it.
server_write_fail(r) ==
  /\ gen[r] = "yielded"
  /\ client[r] = "gone"
  /\ ExceptBlock(r, "detach")
  /\ UNCHANGED <<verbose, endpointVars, filterVars, reqVars, written, readPos, delivered, client,
                 threadVars>>

\* The server closes a response it never iterated (the client went away
\* first): close() on a generator that has not started runs none of its
\* code, the except block included.
server_early_close(r) ==
  /\ gen[r] = "unstarted"
  /\ client[r] = "gone"
  /\ gen' = [gen EXCEPT ![r] = "done"]
  /\ exitPath' = [exitPath EXCEPT ![r] = "early_close"]
  /\ UNCHANGED <<verbose, endpointVars, filterVars, reqVars, procVars, readPos, chunk, stream_stop,
                 reaps, delivered, client, threadVars>>

\* next() or close() on the finished generator: StopIteration at once, or
\* nothing at all; no code of _stream runs
server_after_done(r) ==
  /\ gen[r] = "done"
  /\ UNCHANGED vars

\* The client closes the connection of a streaming response.  (A client
\* that leaves earlier is noticed at the same points, so it is the same as
\* one leaving right after the spawn.)
client_disconnect(r) ==
  /\ req[r] = "streaming"
  /\ gen[r] # "done"
  /\ client[r] = "connected"
  /\ client' = [client EXCEPT ![r] = "gone"]
  /\ UNCHANGED <<verbose, endpointVars, filterVars, reqVars, procVars, relayVars, delivered, threadVars>>

\* ---- the log_output thread -----------------------------------------------

\* log_output enters: with config.verbose = 0 the body is skipped and the
\* thread returns at once
log_output_start(r) ==
  /\ thread[r] = "start"
  /\ thread' = [thread EXCEPT ![r] = IF verbose > 0 THEN "loop" ELSE "done"]
  /\ UNCHANGED <<verbose, endpointVars, filterVars, reqVars, procVars, relayVars, delivered, client,
                 stop_thread>>

\* while not stop(): stop is lambda: stop_thread over watch's variable
log_output_loop(r) ==
  /\ thread[r] = "loop"
  /\ thread' = [thread EXCEPT ![r] = IF stop_thread[r] THEN "done" ELSE "readline"]
  /\ UNCHANGED <<verbose, endpointVars, filterVars, reqVars, procVars, relayVars, delivered, client,
                 stop_thread>>

\* stderr.readline() returns once a line is in the pipe, or '' at EOF, or
\* raises on the closed pipe; every outcome is swallowed and the loop goes
\* on.  A line taken from the full pipe makes room for the one ffmpeg waits
\* to write.
log_output_readline(r) ==
  /\ thread[r] = "readline"
  /\ stderr[ffmpeg_proc(r)] > 0 \/ proc[ffmpeg_proc(r)] # "running"
  /\ thread' = [thread EXCEPT ![r] = "loop"]
  /\ stderr' = [stderr EXCEPT ![ffmpeg_proc(r)] = IF @ > 0 THEN @ - 1 ELSE 0]
  /\ UNCHANGED <<verbose, endpointVars, filterVars, reqVars, proc, exitStatus, written, relayVars,
                 delivered, client, stop_thread>>

\* ---- specification -------------------------------------------------------
\* One step of the handling of request r
Step(r) ==
  \/ \E m \in {"m3u", "direct"} : route(r, m)
  \/ \E ok \in BOOLEAN : watch_m3u(r, ok)
  \/ \E ok \in BOOLEAN : watch_resolve(r, ok)
  \/ \E found \in BOOLEAN : watch_spawn(r, found)
  \/ ffmpeg_write(r)
  \/ ffmpeg_log(r)
  \/ \E how \in {"ok", "fail"} : ffmpeg_exit(r, how)
  \/ server_start(r)
  \/ stream_read(r)
  \/ stream_read_error(r)
  \/ server_write(r)
  \/ server_write_fail(r)
  \/ server_early_close(r)
  \/ server_after_done(r)
  \/ client_disconnect(r)
  \/ log_output_start(r)
  \/ log_output_loop(r)
  \/ log_output_readline(r)

\* Any number of requests up to NumRequests, handled concurrently
Next == \E r \in Requests : Step(r)

Spec == Init /\ [][Next]_vars

\* One request handled alone: the handlers share no mutable state, so what
\* one session does is independent of the others
SessionNext == Step(1)

SessionSpec == Init /\ [][SessionNext]_vars

\* Every thread of the server that can take a step does so eventually: the
\* handlers, the server's write loop, the relay's read, the log thread; a
\* running process keeps writing.  Nothing forces a client to leave, a read to
\* fail or the process to exit.
Fairness(r) ==
    /\ WF_vars(\E ok \in BOOLEAN : watch_m3u(r, ok))
    /\ WF_vars(\E ok \in BOOLEAN : watch_resolve(r, ok))
    /\ WF_vars(\E found \in BOOLEAN : watch_spawn(r, found))
    /\ WF_vars(ffmpeg_write(r))
    /\ WF_vars(server_start(r) \/ server_early_close(r))
    /\ WF_vars(stream_read(r))
    /\ WF_vars(server_write(r) \/ server_write_fail(r))
    /\ WF_vars(log_output_start(r))
    /\ WF_vars(log_output_loop(r))
    /\ WF_vars(log_output_readline(r))

FairSessionSpec == SessionSpec /\ Fairness(1)

TypeOK ==
  /\ verbose \in 0..MaxVerbose
  /\ req \in [Requests -> {"idle", "resolving", "resolved", "redirected",
                           "streaming", "error"}]
  /\ mode \in [Requests -> {"none", "m3u", "direct"}]
  /\ uri \in [Requests -> {"pending", "ok", "fail"}]
  /\ status \in [Requests -> {0, 200, 302, 500}]
  /\ proc \in [Requests -> {"none", "running", "exited", "reaped"}]
  /\ exitStatus \in [Requests -> {"none", "ok", "fail", "signal"}]
  /\ written \in [Requests -> 0..MaxBytes]
  /\ readPos \in [Requests -> 0..MaxBytes]
  /\ gen \in [Requests -> {"none", "unstarted", "reading", "yielded", "done"}]
  /\ \A r \in Requests : Len(chunk[r]) <= MaxBytes /\ Len(delivered[r]) <= MaxBytes
  /\ client \in [Requests -> {"connected", "gone"}]
  /\ thread \in [Requests -> {"none", "start", "loop", "readline", "done"}]
  /\ stop_thread \in [Requests -> BOOLEAN]
  /\ stderr \in [Requests -> 0..(PipeCapacity + 1)]
  /\ reaps \in [Requests -> 0..1]
  /\ stream_stop \in [Requests -> BOOLEAN]
  /\ exitPath \in [Requests -> {"none", "read_error", "detach", "early_close"}]

\* ---- the name_only filter --------------------------------------------------
\* Strings are sequences of one-character strings.

Digits == {"0", "1", "2", "3", "4", "5", "6", "7", "8", "9"}

Newline == "\n"

\* The characters the strings given to name_only are made of
Alphabet == {"4", ".", " ", "C", Newline}

\* All strings over Alphabet of length n or less
RECURSIVE StringsUpTo(_)
StringsUpTo(n) ==
  IF n = 0 THEN {<<>>}
  ELSE LET shorter == StringsUpTo(n - 1)
       IN shorter \cup {Append(t, c) : t \in {u \in shorter : Len(u) = n - 1},
                                       c \in Alphabet}

\* The positions j at which a leading \d+\.\d+ ends with a space behind it:
\* value[1..i] are digits, value[i+1] is the dot, value[i+2..j] are digits,
\* value[j+1] is the space.  (re.match anchors the pattern at the start.)
PrefixEnds(v) ==
  {j \in 3..Len(v) - 1 :
     /\ v[j + 1] = " "
     /\ \E i \in 1..j - 2 :
          /\ \A k \in 1..i : v[k] \in Digits
          /\ v[i + 1] = "."
          /\ \A k \in i + 2..j : v[k] \in Digits}

\* The longest run of characters from position a on that (.+) can take: the
\* dot matches every character but a newline
RunEnd(v, a) ==
  IF \E k \in a..Len(v) : v[k] = Newline
    THEN (CHOOSE k \in a..Len(v) :
            v[k] = Newline /\ \A l \in a..k - 1 : v[l] # Newline) - 1
    ELSE Len(v)

\* A name_only whose dot matches newlines too (re.DOTALL)
name_only_dotall(v) ==
  IF \E j \in PrefixEnds(v) : j + 2 <= Len(v)
    THEN LET j == CHOOSE j \in PrefixEnds(v) : j + 2 <= Len(v)
         IN SubSeq(v, j + 2, Len(v))
    ELSE v

\* m = re.match(r'\d+\.\d+ (.+)', value); m.group(1) if m else value
name_only(v) ==
  IF \E j \in PrefixEnds(v) : j + 2 <= Len(v) /\ v[j + 2] # Newline
    THEN LET j == CHOOSE j \in PrefixEnds(v) : j + 2 <= Len(v) /\ v[j + 2] # Newline
         IN SubSeq(v, j + 2, RunEnd(v, j + 2))
    ELSE v

\* A template calls the filter on value
call_name_only ==
  /\ result = None
  /\ result' = name_only(value)
  /\ UNCHANGED <<watchVars, endpointVars, value>>

\* The filter called once on any string up to MaxLen characters
FilterInit ==
  /\ WatchInit
  /\ config = DefaultConfig
  /\ station_scan = FALSE
  /\ stations = <<>>
  /\ EndpointIdle
  /\ value \in StringsUpTo(MaxLen)
  /\ result = None

FilterNext == call_name_only

FilterSpec == FilterInit /\ [][FilterNext]_vars

\* ---- the lineup endpoints --------------------------------------------------

\* x is true in Python's sense: neither None nor the empty string
Truthy(x) == x # None /\ x # <<>>

\* a or b
Or(a, b) == IF Truthy(a) THEN a ELSE b

\* The values of the fields of a station explored
CallSigns == {None, <<"4", ".", "1", " ", "C", "B", "S">>, <<"C", "B", "S">>}

RemappedCallSigns == {None, <<>>, <<"9", ".", "1", " ", "W", "X">>}

Channels == {<<"4", ".", "1">>}

RemappedChannels == {None, <<>>, <<"9", ".", "1">>}

\* The station dictionaries get_stations() can return
Stations ==
  [id : {7}, name : {<<"W", "C", "B", "S">>}, city : {<<"N", "Y">>},
   callSign : CallSigns, callSign_remapped : RemappedCallSigns,
   channel : Channels, channel_remapped : RemappedChannels,
   logoUrl : {None}, logo226Url : {<<"l">>}]

\* The lists of at most n stations
RECURSIVE StationLists(_)
StationLists(n) ==
  IF n = 0 THEN {<<>>}
  ELSE LET shorter == StationLists(n - 1)
       IN shorter \cup {Append(l, st) : l \in {u \in shorter : Len(u) = n - 1},
                                        st \in Stations}

\* The callsigns that m3u puts in the group "Network"
Networks == {<<"A", "B", "C">>, <<"C", "B", "S">>, <<"N", "B", "C">>,
             <<"F", "O", "X">>, <<"C", "W">>, <<"P", "B", "S">>}

\* An m3u that looks at the raw callSign first
CallsignRawFirst(station) ==
  name_only(Or(station.callSign, Or(station.callSign_remapped, station.name)))

\* callsign of m3u: name_only(callSign_remapped or callSign or name)
Callsign(station) ==
  name_only(Or(station.callSign_remapped, Or(station.callSign, station.name)))

\* An m3u that ignores the remapped channel
M3uChannelRaw(station) == station.channel

\* channel of m3u: channel_remapped or channel
M3uChannel(station) == Or(station.channel_remapped, station.channel)

\* A lineup_json that ignores the remapped channel
GuideNumberRaw(station) == station.channel

\* GuideNumber of lineup_json: channel_remapped or channel
GuideNumber(station) == Or(station.channel_remapped, station.channel)

\* ";".join(filter(None, [city, networks]))
Groups(city, networks) ==
  IF city = <<>> THEN networks
  ELSE IF networks = <<>> THEN city
  ELSE city \o <<";">> \o networks

\* f' ({city})'
InCity(city) == <<" ", "(">> \o city \o <<")">>

\* The #EXTINF line and the URL line m3u writes for one station, by field
M3uEntry(station, multiplex) ==
  LET callsign == Callsign(station)
      networks == IF callsign \in Networks
                    THEN <<"N", "e", "t", "w", "o", "r", "k">> ELSE <<>>
  IN [tvg_id |-> <<"channel", station.id>>,
      tvg_name |-> IF multiplex THEN callsign \o InCity(station.city)
                   ELSE callsign,
      tvg_logo |-> Or(station.logoUrl, station.logo226Url),
      tvg_chno |-> M3uChannel(station),
      group_title |-> Groups(station.city, networks),
      title |-> IF multiplex THEN callsign \o InCity(station.city)
                ELSE callsign,
      url |-> <<"watch", station.id, "m3u">>]

\* m3u: one entry per station, in the order of get_stations()
m3u(h) ==
  /\ ep[h].pc = "idle"
  /\ ep' = [ep EXCEPT ![h] = [@ EXCEPT !.pc = "done",
                                       !.route = "m3u",
                                       !.fetches = @ + 1,
                                       !.status = 200,
                                       !.body = [i \in 1..Len(stations) |->
                                                   M3uEntry(stations[i], config.multiplex)]]]
  /\ UNCHANGED <<watchVars, filterVars, config, station_scan, stations>>

\* lineup_json: GuideNumber, GuideName and URL per station
lineup_json(h) ==
  /\ ep[h].pc = "idle"
  /\ ep' = [ep EXCEPT ![h] = [@ EXCEPT !.pc = "done",
                                       !.route = "lineup_json",
                                       !.fetches = @ + 1,
                                       !.status = 200,
                                       !.body = [i \in 1..Len(stations) |->
                                                   [GuideNumber |-> GuideNumber(stations[i]),
                                                    GuideName |-> stations[i].name,
                                                    URL |-> <<"watch", stations[i].id>>]]]]
  /\ UNCHANGED <<watchVars, filterVars, config, station_scan, stations>>

\* ---- the scan endpoints ---------------------------------------------------

\* The values request.args.get('scan') can have: <<>> when the argument is
\* missing (None), else the one string given
ScanArgs == {<<>>, <<"start">>, <<"bogus">>, <<"START">>, <<"">>}

\* f'{scan}': the argument as Python formats it
Format(arg) == IF arg = <<>> THEN "None" ELSE arg[1]

\* A lineup_post that accepts the command in any letter case
IsStartAnyCase(arg) == arg \in {<<"start">>, <<"START">>}

\* scan == 'start'
IsStart(arg) == arg = <<"start">>

\* An assignment to station_scan that reaches HTTPInterface's variable
AssignStationScanNonlocal(outer, v) == v

\* HTTPInterface's station_scan after lineup_post runs station_scan = v: the
\* assignment makes the name local to lineup_post, the outer one is not bound
AssignStationScan(outer, v) == outer

\* lineup_post up to the call of get_stations, or to its 400 response
lineup_post(h, arg) ==
  /\ ep[h].pc = "idle"
  /\ IF IsStart(arg)
       THEN /\ ep' = [ep EXCEPT ![h] = [@ EXCEPT !.pc = "fetching",
                                               !.route = "lineup_post",
                                               !.arg = arg,
                                               !.scan = TRUE,
                                               !.fetches = @ + 1]]
            /\ station_scan' = AssignStationScan(station_scan, TRUE)
       ELSE /\ ep' = [ep EXCEPT ![h] = [@ EXCEPT !.pc = "done",
                                               !.route = "lineup_post",
                                               !.arg = arg,
                                               !.status = 400,
                                               !.body = Format(arg) \o " is not a valid scan command"]]
            /\ UNCHANGED station_scan
  /\ UNCHANGED <<watchVars, filterVars, config, stations>>

\* get_stations returns; station_scan = False; return ('', 204)
lineup_post_return(h) ==
  /\ ep[h].pc = "fetching"
  /\ ep' = [ep EXCEPT ![h] = [@ EXCEPT !.pc = "done",
                                       !.scan = FALSE,
                                       !.status = 204,
                                       !.body = ""]]
  /\ station_scan' = AssignStationScan(station_scan, FALSE)
  /\ UNCHANGED <<watchVars, filterVars, config, stations>>

\* The two shapes of the scan status
ScanningShape == [ScanInProgress |-> TRUE, Progress |-> 50, Found |-> 5]

IdleShape == [ScanInProgress |-> FALSE, ScanPossible |-> TRUE,
              Source |-> "Antenna", SourceList |-> <<"Antenna">>]

lineup_status_json(h) ==
  /\ ep[h].pc = "idle"
  /\ ep' = [ep EXCEPT ![h] = [@ EXCEPT !.pc = "done",
                                       !.route = "lineup_status",
                                       !.status = 200,
                                       !.body = IF station_scan THEN ScanningShape
                                                ELSE IdleShape]]
  /\ UNCHANGED <<watchVars, filterVars, config, station_scan, stations>>

\* The response has been sent; the server thread takes the next request
respond(h) ==
  /\ ep[h].pc = "done"
  /\ ep' = [ep EXCEPT ![h] = NoRequest]
  /\ UNCHANGED <<watchVars, filterVars, config, station_scan, stations>>

\* ---- the config and discovery endpoints --------------------------------------

\* An output_config that returns the copy as it is
PasswordKept(c) == c

\* c['password'] = "*********"
PasswordMasked(c) == [c EXCEPT !.password = Mask]

\* An output_config whose c is the Configuration object itself
SharedConfigMasked(cfg) == [cfg EXCEPT !.password = Mask]

\* The shared Configuration after output_config: c = dict(config) is a new
\* dictionary, so the assignment to c['password'] does not reach config
SharedConfig(cfg) == cfg

\* output_config: copy, mask, print, jsonify
output_config(h) ==
  /\ ep[h].pc = "idle"
  /\ ep' = [ep EXCEPT ![h] = [@ EXCEPT !.pc = "done",
                                       !.route = "config",
                                       !.status = 200,
                                       !.body = PasswordMasked(config)]]
  /\ config' = SharedConfig(config)
  /\ UNCHANGED <<watchVars, filterVars, station_scan, stations>>

\* discover_json: the device description, with config.tuner_count in it
discover_json(h) ==
  /\ ep[h].pc = "idle"
  /\ ep' = [ep EXCEPT ![h] = [@ EXCEPT !.pc = "done",
                                       !.route = "discover",
                                       !.status = 200,
                                       !.body = [Manufacturer |-> "locast2dvr",
                                                 TunerCount |-> config.tuner_count,
                                                 DeviceAuth |-> "locast2dvr"]]]
  /\ UNCHANGED <<watchVars, filterVars, config, station_scan, stations>>

\* ---- specification of the lineup endpoints ---------------------------------
LineupStep(h) ==
  \/ m3u(h)
  \/ lineup_json(h)
  \/ respond(h)

LineupNext == \E h \in Handlers : LineupStep(h)

\* The app over any list of stations, with and without multiplex naming
LineupInit ==
  /\ WatchInit
  /\ config \in [username : {"user"}, password : {"secret"},
                 multiplex : BOOLEAN, tuner_count : {tuner_count},
                 ffmpeg : {"ffmpeg"}]
  /\ station_scan = FALSE
  /\ stations \in StationLists(MaxStations)
  /\ EndpointIdle
  /\ FilterIdle

LineupSpec == LineupInit /\ [][LineupNext]_vars

\* ---- specification of the config endpoint -----------------------------------
ConfigStep(h) ==
  \/ output_config(h)
  \/ discover_json(h)
  \/ respond(h)

ConfigNext == \E h \in Handlers : ConfigStep(h)

\* The app over the configurations explored; the password may be empty, the
\* mask itself, or the same as another value
ConfigInit ==
  /\ WatchInit
  /\ config \in [username : {"user", "secret"},
                 password : {"secret", "", Mask},
                 multiplex : BOOLEAN, tuner_count : {tuner_count},
                 ffmpeg : {"ffmpeg"}]
  /\ station_scan = FALSE
  /\ stations = <<>>
  /\ EndpointIdle
  /\ FilterIdle

ConfigSpec == ConfigInit /\ [][ConfigNext]_vars

\* ---- specification of the endpoints ----------------------------------------
EndpointStep(h) ==
  \/ \E arg \in ScanArgs : lineup_post(h, arg)
  \/ lineup_post_return(h)
  \/ lineup_status_json(h)
  \/ respond(h)

EndpointNext == \E h \in Handlers : EndpointStep(h)

\* The app created with either value of station_scan
EndpointInit ==
  /\ WatchInit
  /\ config = DefaultConfig
  /\ station_scan \in BOOLEAN
  /\ stations = <<>>
  /\ EndpointIdle
  /\ FilterIdle

EndpointSpec == EndpointInit /\ [][EndpointNext]_vars

\* ---- properties -----------------------------------------------------------

\* Sessions whose response has been created and whose relay has not ended
Streaming == {r \in Requests : req[r] = "streaming" /\ gen[r] # "done"}

\* C1: whenever the relay of a direct-stream session has ended, on any exit
\* path, the process the session spawned has been terminated and reaped.
C1_ReapedWhenSessionEnds ==
  \A r \in Requests : gen[r] = "done" => proc[r] = "reaped"

\* C2: after the client of a session has disconnected the spawned process is
\* terminated.  Only _stream holds the means to terminate it, so once the
\* generator is finished a process still running stays running: no session
\* of a client that is gone has ended with its process running.
C2_NoProcessWithoutClient ==
  \A r \in Requests :
    (client[r] = "gone" /\ gen[r] = "done") => proc[r] # "running"

\* C3: when a read of stdout fails, or the consumer detaches while the relay
\* is suspended at a yielded chunk, the relay ends with the process
\* terminated and reaped in the same step, and once it has ended that way it
\* stays ended and the client receives nothing more.
C3_ErrorOrDetachReaps ==
  [][\A r \in Requests :
       /\ (gen[r] \in {"reading", "yielded"} /\ gen'[r] \notin {"reading", "yielded"})
            => /\ gen'[r] = "done"
               /\ proc'[r] = "reaped"
               /\ exitPath'[r] \in {"read_error", "detach"}
               /\ chunk'[r] = <<>>
       /\ exitPath[r] \in {"read_error", "detach"}
            => /\ gen[r] = "done" /\ gen'[r] = "done"
               /\ proc[r] = "reaped" /\ proc'[r] = "reaped"
               /\ delivered'[r] = delivered[r]
               /\ chunk'[r] = <<>>]_vars

C3_Witness ==
  /\ exitPath[1] = "detach"
  /\ gen[1] = "done"
  /\ proc[1] = "reaped"
  /\ delivered[1] # <<>>

\* C4: once the process has exited normally and the relay has read the end
\* of its stdout (the empty chunk), the relay eventually ends and the process
\* is reaped.
C4_CleanEofEndsRelay ==
  \A r \in Requests :
    (proc[r] = "exited" /\ exitStatus[r] = "ok"
       /\ gen[r] = "yielded" /\ chunk[r] = <<>>)
      ~> (gen[r] = "done" /\ proc[r] = "reaped")

\* C5: a request whose URI resolution failed has ended with an error and has
\* neither a process, nor a stderr thread, nor a relay, in both watch modes.
C5_ResolveFailureSpawnsNothing ==
  \A r \in Requests :
    uri[r] = "fail" => /\ req[r] = "error"
                       /\ status[r] = 500
                       /\ proc[r] = "none"
                       /\ thread[r] = "none"
                       /\ gen[r] = "none"

C5_Witness ==
  /\ mode[1] = "direct"
  /\ uri[1] = "fail"
  /\ req[1] = "error"

\* C6: the number of direct-stream sessions streaming at the same time never
\* exceeds the configured tuner count.
C6_AtMostTunerCountStreaming ==
  Cardinality(Streaming) <= tuner_count

\* C7: when the transcoder cannot be launched (Popen raised, or the process
\* exited with nonzero status before writing anything) the request has a
\* server error status, no byte went to the client, and no process runs.
C7_LaunchFailureIsServerError ==
  \A r \in Requests :
    /\ (req[r] = "error" /\ uri[r] = "ok" /\ mode[r] = "direct")
         => (status[r] = 500 /\ proc[r] = "none" /\ delivered[r] = <<>>)
    /\ (exitStatus[r] = "fail" /\ written[r] = 0)
         => (status[r] = 500 /\ proc[r] # "running" /\ delivered[r] = <<>>)

\* C8: once the process of a session has been reaped, the stderr thread of
\* the session eventually terminates, whatever config.verbose is.
C8_ThreadStopsAfterReap ==
  \A r \in Requests : (proc[r] = "reaped") ~> (thread[r] = "done")

\* C9: what the client has received, followed by the chunk the relay holds,
\* is a prefix of what the process wrote; while the relay runs, the bytes read
\* and not yet handed over are exactly that one chunk, of at most
\* bytes_per_read bytes.
C9_DeliveredIsPrefixOfProduced ==
  \A r \in Requests :
    /\ IsPrefix(delivered[r] \o chunk[r], Produced(r))
    /\ Len(chunk[r]) <= bytes_per_read
    /\ gen[r] \in {"reading", "yielded"}
         => readPos[r] = Len(delivered[r]) + Len(chunk[r])

C9_Witness ==
  /\ Len(delivered[1]) = bytes_per_read
  /\ chunk[1] # <<>>
  /\ gen[1] = "yielded"

\* C10: a response (302, 200 or an error) exists only once the resolution has
\* completed; a process exists only in direct-stream mode and only after a
\* successful resolution; the 200 response and its bytes only after the
\* process was spawned; the 302 only in playlist mode, with no process.
C10_ResolveThenSpawnThenRespond ==
  \A r \in Requests :
    /\ status[r] # 0 => uri[r] # "pending"
    /\ proc[r] # "none" => (uri[r] = "ok" /\ mode[r] = "direct")
    /\ status[r] = 200 => proc[r] # "none"
    /\ delivered[r] # <<>> => status[r] = 200
    /\ status[r] = 302 => (uri[r] = "ok" /\ mode[r] = "m3u" /\ proc[r] = "none")

C10_Witness ==
  /\ status[1] = 200
  /\ uri[1] = "ok"
  /\ delivered[1] # <<>>

\* C11: a finished /lineup.post request with scan = start has fetched the
\* stations exactly once and answers 204 with an empty body; with any other
\* value, a missing one included, it has fetched nothing and answers 400 with
\* the value followed by " is not a valid scan command".
C11_LineupPostStartOrError ==
  \A h \in Handlers :
    (ep[h].route = "lineup_post" /\ ep[h].pc = "done") =>
      IF ep[h].arg = <<"start">>
        THEN ep[h].status = 204 /\ ep[h].body = "" /\ ep[h].fetches = 1
        ELSE /\ ep[h].status = 400
             /\ ep[h].fetches = 0
             /\ ep[h].body = (IF ep[h].arg = <<>> THEN "None" ELSE ep[h].arg[1])
                               \o " is not a valid scan command"

C11_Witness ==
  /\ ep[1].route = "lineup_post" /\ ep[1].pc = "done" /\ ep[1].arg = <<"start">>
  /\ ep[2].route = "lineup_post" /\ ep[2].pc = "done" /\ ep[2].arg = <<"bogus">>
  /\ ep[2].body = "bogus is not a valid scan command"

\* C12: in an app created with station_scan false every scan status is the
\* idle shape, also while a rescan of another request is fetching; no step
\* changes the flag the status endpoint reads; a status is always one of the
\* two shapes.
C12_StatusAlwaysIdle ==
  /\ (station_scan = FALSE) =>
       [](\A h \in Handlers :
            (ep[h].route = "lineup_status" /\ ep[h].pc = "done")
              => ep[h].body = IdleShape)
  /\ [][station_scan' = station_scan]_vars
  /\ [](\A h \in Handlers :
          (ep[h].route = "lineup_status" /\ ep[h].pc = "done")
            => ep[h].body \in {IdleShape, ScanningShape})

C12_Witness ==
  /\ station_scan = FALSE
  /\ ep[1].route = "lineup_post" /\ ep[1].pc = "fetching" /\ ep[1].scan = TRUE
  /\ ep[2].route = "lineup_status" /\ ep[2].pc = "done"
  /\ ep[2].body = IdleShape

\* The strings that start with digits, a dot, digits and a space, and have
\* at least one more character
HasNumberPrefix(v) ==
  \E i, j \in 1..Len(v) :
    /\ i + 2 <= j /\ j + 2 <= Len(v)
    /\ \A k \in 1..i : v[k] \in Digits
    /\ v[i + 1] = "."
    /\ \A k \in i + 2..j : v[k] \in Digits
    /\ v[j + 1] = " "

\* What follows the number prefix of v
AfterNumberPrefix(v) ==
  LET j == CHOOSE j \in 3..Len(v) :
             /\ v[j + 1] = " "
             /\ \A k \in 1..j : v[k] \in Digits \cup {"."}
  IN SubSeq(v, j + 2, Len(v))

C13_RemappedValuesRendered ==
  \A h \in Handlers : \A i \in 1..Len(stations) :
    LET st == stations[i]
        name == name_only(st.callSign_remapped)
    IN /\ (ep[h].pc = "done" /\ ep[h].route = "m3u") =>
            /\ Len(ep[h].body) = Len(stations)
            /\ Truthy(st.channel_remapped) =>
                 /\ ep[h].body[i].tvg_chno = st.channel_remapped
                 /\ st.channel_remapped # st.channel
                      => ep[h].body[i].tvg_chno # st.channel
            /\ Truthy(st.callSign_remapped) =>
                 /\ IsPrefix(name, ep[h].body[i].tvg_name)
                 /\ IsPrefix(name, ep[h].body[i].title)
                 /\ ep[h].body[i].tvg_name =
                      (IF config.multiplex THEN name \o InCity(st.city) ELSE name)
                 /\ ep[h].body[i].title = ep[h].body[i].tvg_name
                 /\ (Truthy(st.callSign)
                       /\ ~IsPrefix(name_only(st.callSign), name))
                      => ~IsPrefix(name_only(st.callSign), ep[h].body[i].title)
       /\ (ep[h].pc = "done" /\ ep[h].route = "lineup_json") =>
            /\ Len(ep[h].body) = Len(stations)
            /\ Truthy(st.channel_remapped) =>
                 /\ ep[h].body[i].GuideNumber = st.channel_remapped
                 /\ st.channel_remapped # st.channel
                      => ep[h].body[i].GuideNumber # st.channel

C13_Witness ==
  /\ Len(stations) = 1
  /\ Truthy(stations[1].callSign_remapped)
  /\ Truthy(stations[1].callSign)
  /\ Truthy(stations[1].channel_remapped)
  /\ ep[1].pc = "done" /\ ep[1].route = "m3u"
  /\ ep[2].pc = "done" /\ ep[2].route = "lineup_json"

\* C14: the password field of every /config response is the fixed mask, so
\* it is not the configured password (unless that is the mask), and every
\* other field has the value of the configuration.
C14_ConfigPasswordMasked ==
  \A h \in Handlers :
    (ep[h].pc = "done" /\ ep[h].route = "config") =>
      /\ DOMAIN ep[h].body = DOMAIN config
      /\ ep[h].body.password = Mask
      /\ config.password # Mask => ep[h].body.password # config.password
      /\ \A f \in DOMAIN config \ {"password"} : ep[h].body[f] = config[f]

C14_Witness ==
  /\ config.password = "secret"
  /\ ep[1].pc = "done" /\ ep[1].route = "config"
  /\ ep[1].body.password = Mask

\* C19: no step changes the shared configuration: after any sequence of
\* /config requests its password, tuner count and transcoder path, and what
\* /discover.json reports from it, are what they were.
C19_ConfigUnchanged ==
  /\ [][config' = config]_vars
  /\ [](\A h \in Handlers :
          (ep[h].pc = "done" /\ ep[h].route = "discover")
            => ep[h].body.TunerCount = config.tuner_count)

C19_Witness ==
  /\ config.password = "secret"
  /\ ep[1].pc = "done" /\ ep[1].route = "config"
  /\ ep[2].pc = "done" /\ ep[2].route = "discover"

\* C15: two sessions never refer to the same process, and a step of the
\* relay or of the stderr thread of one session (a read, the except block
\* that terminates and reaps, the end of the generator) changes neither the
\* process nor the pipes nor the thread nor the relay of any other session.
C15_SessionsOwnTheirProcess ==
  /\ [](\A r, q \in Requests :
          (r # q /\ gen[r] # "none" /\ gen[q] # "none")
            => ffmpeg_proc(r) # ffmpeg_proc(q))
  /\ [][\A r, q \in Requests :
          (r # q /\ (gen'[r] # gen[r] \/ thread'[r] # thread[r]))
            => /\ proc'[q] = proc[q]
               /\ exitStatus'[q] = exitStatus[q]
               /\ readPos'[q] = readPos[q]
               /\ stderr'[q] = stderr[q]
               /\ gen'[q] = gen[q]
               /\ thread'[q] = thread[q]
               /\ stop_thread'[q] = stop_thread[q]
               /\ stream_stop'[q] = stream_stop[q]]_vars

\* Session 1 was terminated and reaped while session 2 goes on relaying
C15_Witness ==
  /\ reaps[1] = 1 /\ proc[1] = "reaped"
  /\ proc[2] = "running" /\ gen[2] = "yielded" /\ readPos[2] > 0
  /\ thread[2] \in {"loop", "readline", "done"}

\* Something takes lines from the stderr pipe of session r now or will
Draining(r) ==
  \/ thread[r] \in {"loop", "readline"}
  \/ thread[r] = "start" /\ verbose > 0

\* C17: whenever ffmpeg waits on its full stderr pipe while the relay waits
\* in stdout.read for bytes ffmpeg has yet to write, the stderr thread of the
\* session is there to drain the pipe, for every config.verbose.
C17_StderrDrainedWhileRelaying ==
  \A r \in Requests :
    (proc[r] = "running" /\ Blocked(r) /\ gen[r] = "reading" /\ ~ReadReady(r))
      => Draining(r)

\* C18: the except block of _stream runs at most once per session, and once
\* it has run the generator stays finished: no step reads from stdout or
\* runs the except block again.
C18_CleanupAtMostOnce ==
  /\ [](\A r \in Requests : reaps[r] <= 1)
  /\ [][\A r \in Requests :
          reaps[r] >= 1 => /\ reaps'[r] = reaps[r]
                           /\ readPos'[r] = readPos[r]
                           /\ gen'[r] = "done"
                           /\ proc'[r] = "reaped"]_vars

\* The except block ran on a detach after part of the stream was relayed
C18_Witness ==
  /\ reaps[1] = 1 /\ exitPath[1] = "detach"
  /\ gen[1] = "done" /\ readPos[1] > 0

====
